---- MODULE Spec2Model ----
(***************************************************************************)
(* kcsp: a caching proxy.  Model of src/src/server.js: the API pipeline    *)
(* (onAPIRequest, getRequestId, makeAPIRequest), the header sanitizer      *)
(* (removeProxyHeaders), the generic relay of onRequest, and the key-value *)
(* store ./db the pipeline talks to.                                       *)
(*                                                                         *)
(* JavaScript values are tagged records:                                   *)
(*   [t |-> "undef"]            undefined / null                           *)
(*   [t |-> "num", n |-> 200]   a number                                   *)
(*   [t |-> "str", s |-> "x"]   a string                                   *)
(*   [t |-> "arr", a |-> <<>>]  an array                                   *)
(*   [t |-> "obj", f |-> map]   an object (map: property name -> value)    *)
(*   [t |-> "buf", d |-> <<>>]  a Buffer (its bytes)                       *)
(*   [t |-> "throw"]            evaluation threw                           *)
(* A stored string is [t |-> "text", s |-> ...] for a text that is not a   *)
(* JSON document and [t |-> "json", v |-> value] for the JSON text of      *)
(* value; [t |-> "none"] is a key without entry.                           *)
(***************************************************************************)
EXTENDS Integers, Sequences, FiniteSets, TLC

\* The requests the model follows, in the order they arrive: two, so that
\* a request can overlap with, or follow, another one for the same key.
Reqs == {1, 2}

\* How many times the operator writes the lock.
MaxLockWrites == 1

---------------------------------------------------------------------------
\* JavaScript values

Undef == [t |-> "undef"]
Thrown == [t |-> "throw"]
Num(n) == [t |-> "num", n |-> n]
Str(s) == [t |-> "str", s |-> s]
Arr(a) == [t |-> "arr", a |-> a]
Obj(f) == [t |-> "obj", f |-> f]
Buf(d) == [t |-> "buf", d |-> d]

\* o[k] of JavaScript: undefined when o is no object or has no such property.
Prop(o, k) == IF o.t = "obj" /\ k \in DOMAIN o.f THEN o.f[k] ELSE Undef

\* Stored strings
NoEntry == [t |-> "none"]
Text(s) == [t |-> "text", s |-> s]
Json(v) == [t |-> "json", v |-> v]

REQUEST == Text("__REQUEST__")
BLOCK == Text("__BLOCK__")
LOCKKEY == "lock"

JNull == [t |-> "null"]

\* Truthiness of a JavaScript value (the reviver's `value && ...`).
Truthy(v) ==
    CASE v.t \in {"undef", "null"} -> FALSE
      [] v.t = "num" -> v.n # 0
      [] v.t = "str" -> v.s # ""
      [] OTHER -> TRUE

---------------------------------------------------------------------------
\* Inputs of the model

\* Header names removeProxyHeaders deletes (server.js 222-229).
ProxyHeaders ==
    {"connection", "proxy-connection", "proxy-authenticate",
     "proxy-authorization", "host", "content-length", "cache-token",
     "request-uri"}

\* Headers every client request of the model carries (names are lower-case,
\* as node's http parser delivers them).
BaseHeaders ==
    [k \in {"host", "proxy-connection", "accept"} |->
        CASE k = "host" -> Str("example.org")
          [] k = "proxy-connection" -> Str("keep-alive")
          [] OTHER -> Str("*/*")]

NoHeaders == [k \in {} |-> Undef]

WithHeader(h, k, v) == [x \in DOMAIN h \cup {k} |-> IF x = k THEN v ELSE h[x]]

\* Form-encoded bodies, as querystring.parse reads them: a map of fields.
EmptyForm == [k \in {} |-> ""]

\* Request URLs: host and the segments of the path.
ApiUrl == [host |-> "example.org", pathname |-> <<"kcsapi", "api_start2">>]
PageUrl == [host |-> "example.org", pathname |-> <<"kcs", "mainD2.swf">>]

ApiRequest(h, b) == [method |-> "POST", url |-> ApiUrl, headers |-> h, body |-> b]

\* The requests a client sends: API calls with each token present, empty or
\* missing, and a request for a page.
Requests ==
    {ApiRequest(WithHeader(BaseHeaders, "cache-token", Str("t1")), [k \in {"api_token"} |-> "u1"]),
     ApiRequest(WithHeader(BaseHeaders, "cache-token", Str("t1")), [k \in {"api_token"} |-> ""]),
     ApiRequest(WithHeader(BaseHeaders, "cache-token", Str("")), [k \in {"api_token"} |-> "u1"]),
     ApiRequest(WithHeader(BaseHeaders, "cache-token", Str("t1")), EmptyForm),
     ApiRequest(BaseHeaders, [k \in {"api_token"} |-> "u1"]),
     ApiRequest(BaseHeaders, EmptyForm),
     [method |-> "GET", url |-> PageUrl, body |-> EmptyForm,
      headers |-> WithHeader(BaseHeaders, "cache-token", Str("t1"))]}

\* What an origin answers: status, headers, raw body.
OriginResponses ==
    {[statusCode |-> 200,
      headers |-> [k \in {"content-type", "connection", "content-length"} |->
                     CASE k = "content-type" -> Str("text/plain")
                       [] k = "connection" -> Str("close")
                       [] OTHER -> Str("2")],
      body |-> Buf(<<1, 2>>)],
     [statusCode |-> 500,
      headers |-> [k \in {"content-type"} |-> Str("text/html")],
      body |-> Buf(<<>>)],
     [statusCode |-> 200,
      headers |-> [k \in {"type"} |-> Str("Buffer")],
      body |-> Buf(<<7>>)]}

---------------------------------------------------------------------------
\* Pure functions of server.js

\* removeProxyHeaders (server.js 217-231): a copy of origin without the
\* proxy headers.
removeProxyHeadersKeepsLength(origin) ==
    [k \in DOMAIN origin \ (ProxyHeaders \ {"content-length"}) |-> origin[k]]

removeProxyHeaders(origin) ==
    [k \in DOMAIN origin \ ProxyHeaders |-> origin[k]]

\* isGameAPI (server.js 200-203): pathname.startsWith('/kcsapi/').
isGameAPI(rq) ==
    Len(rq.url.pathname) >= 2 /\ rq.url.pathname[1] = "kcsapi"

\* getRequestId (server.js 189-198): `${user}-${token}`, or throw forbidden
\* when user or token is null/undefined.
getRequestIdNoSeparator(rq) ==
    LET user == IF "api_token" \in DOMAIN rq.body
                THEN Str(rq.body["api_token"]) ELSE Undef
        token == IF "cache-token" \in DOMAIN rq.headers
                 THEN rq.headers["cache-token"] ELSE Undef
    IN  IF user # Undef /\ token # Undef
        THEN Str(user.s \o token.s)
        ELSE Thrown

getRequestId(rq) ==
    LET user == IF "api_token" \in DOMAIN rq.body
                THEN Str(rq.body["api_token"]) ELSE Undef
        token == IF "cache-token" \in DOMAIN rq.headers
                 THEN rq.headers["cache-token"] ELSE Undef
    IN  IF user # Undef /\ token # Undef
        THEN Str(user.s \o "-" \o token.s)
        ELSE Thrown

\* Every id getRequestId can return for the model's inputs.
CacheKeys == {getRequestId(rq).s : rq \in {q \in Requests : getRequestId(q) # Thrown}}
Keys == {LOCKKEY} \cup CacheKeys

---------------------------------------------------------------------------
\* JSON.stringify / JSON.parse as makeAPIRequest uses them

\* JSON.stringify: a Buffer serialises through its toJSON as
\* {"type":"Buffer","data":[bytes]}; properties holding undefined are left out.
RECURSIVE ToJson(_)
ToJson(v) ==
    CASE v.t = "buf" ->
            Obj([k \in {"type", "data"} |->
                    IF k = "type" THEN Str("Buffer")
                    ELSE Arr([i \in DOMAIN v.d |-> Num(v.d[i])])])
      [] v.t = "obj" ->
            Obj([k \in {x \in DOMAIN v.f : v.f[x] # Undef} |-> ToJson(v.f[k])])
      [] v.t = "arr" -> Arr([i \in DOMAIN v.a |-> ToJson(v.a[i])])
      [] v.t = "undef" -> JNull
      [] OTHER -> v

JSONstringify(v) == Json(ToJson(v))

\* new Buffer(x) (server.js 133): the bytes of an array, a zero-filled buffer
\* of a length, a copy of a buffer; a TypeError for anything else.  (A string
\* argument gives its UTF-8 bytes; no input of the model reaches that case.)
NewBuffer(x) ==
    CASE x.t = "arr" ->
            Buf([i \in DOMAIN x.a |->
                    IF x.a[i].t = "num" THEN x.a[i].n % 256 ELSE 0])
      [] x.t = "num" /\ x.n >= 0 -> Buf([i \in 1..x.n |-> 0])
      [] x.t = "buf" -> x
      [] x.t \in {"undef", "null", "obj"} -> Thrown
      [] x.t = "num" /\ x.n < 0 -> Thrown

\* The reviver of server.js 132-133.
Reviver(value) ==
    IF Truthy(value) /\ Prop(value, "type") = Str("Buffer")
    THEN NewBuffer(Prop(value, "data"))
    ELSE value

\* JSON.parse's walk: the members first, then the holder itself; an exception
\* of the reviver ends the parse.
RECURSIVE Revive(_)
Revive(v) ==
    CASE v.t = "obj" ->
            LET g == [k \in DOMAIN v.f |-> Revive(v.f[k])]
            IN  IF \E k \in DOMAIN g : g[k] = Thrown THEN Thrown
                ELSE Reviver(Obj(g))
      [] v.t = "arr" ->
            LET b == [i \in DOMAIN v.a |-> Revive(v.a[i])]
            IN  IF \E i \in DOMAIN b : b[i] = Thrown THEN Thrown
                ELSE Reviver(Arr(b))
      [] OTHER -> Reviver(v)

\* JSON.parse(data, reviver) of a stored string: a SyntaxError for a text
\* that is no JSON document.
JSONparse(data) == IF data.t = "json" THEN Revive(data.v) ELSE Thrown

---------------------------------------------------------------------------
\* Writing the response (server.js 87-88, 233-238)

\* responseError (server.js 10-15).
responseError(code) ==
    CASE code = 403 -> "<h1>HTTP 403 - Forbidden</h1>"
      [] code = 410 -> "<h1>HTTP 410 - Gone</h1>"
      [] code = 500 -> "<h1>HTTP 500 - Internal Server Error</h1>"
      [] code = 503 -> "<h1>HTTP 503 - Service Unavailable</h1>"

\* renderErrorPage (server.js 233-238): the response it writes.
renderErrorPage(code) ==
    [status |-> code,
     headers |-> [k \in {"content-type"} |-> Str("text/html")],
     body |-> Str(responseError(code))]

\* res.writeHead(data.statusCode, data.headers) (server.js 87) succeeds: data
\* is an object (a property read of null throws) and the status is a number
\* in 100..999.
WriteHeadOk(data) ==
    /\ data.t \notin {"undef", "null", "throw"}
    /\ Prop(data, "statusCode").t = "num"
    /\ Prop(data, "statusCode").n \in 100..999

\* res.end(data.content) (server.js 88) succeeds: no chunk (a falsy value), a
\* string or a Buffer; any other chunk is a TypeError.
EndOk(data) ==
    LET c == Prop(data, "content")
    IN  \/ ~Truthy(c)
        \/ c.t \in {"str", "buf"}

\* The response lines 87-88 write for data.
ResponseOf(data) ==
    LET h == Prop(data, "headers")
        c == Prop(data, "content")
    IN  [status |-> Prop(data, "statusCode").n,
         headers |-> IF h.t = "obj" THEN h.f ELSE NoHeaders,
         body |-> IF Truthy(c) THEN c ELSE Undef]

\* The catch of onAPIRequest (server.js 91-103): the status of an error.
ErrCode(message) ==
    CASE message = "unavailable" -> 503
      [] message = "gone" -> 410
      [] message = "forbidden" -> 403
      [] OTHER -> 500

\* The object makeAPIRequest caches and returns for an origin response rr
\* (server.js 168-172).
CacheObj(rr) ==
    Obj([k \in {"statusCode", "headers", "content"} |->
            CASE k = "statusCode" -> Num(rr.statusCode)
              [] k = "headers" -> Obj(removeProxyHeaders(rr.headers))
              [] OTHER -> rr.body])

\* The options of the outbound request (server.js 149-156).
FetchOpts(rq) ==
    [t |-> "request",
     method |-> rq.method,
     url |-> rq.url,
     body |-> IF DOMAIN rq.body # {} THEN Obj([k \in DOMAIN rq.body |-> Str(rq.body[k])])
              ELSE JNull,
     headers |-> removeProxyHeaders(rq.headers)]

\* The options of the generic relay's request (server.js 51-58).
RelayOpts(rq) ==
    [t |-> "request",
     method |-> rq.method,
     url |-> rq.url,
     body |-> JNull,
     headers |-> removeProxyHeaders(rq.headers)]

---------------------------------------------------------------------------
\* What the store may hold when the proxy starts: nothing, a sentinel, a
\* payload an earlier run cached, or a string another party wrote.
StoredValues ==
    {NoEntry, REQUEST, BLOCK, Text("{oops"),
     Json(Num(42)), Json(JNull),
     Json(Obj([k \in {"statusCode", "headers", "content"} |->
                CASE k = "statusCode" -> Num(200)
                  [] k = "headers" -> Obj(NoHeaders)
                  [] OTHER -> Num(5)])),
     Json(Obj([k \in {"statusCode", "headers", "content"} |->
                CASE k = "statusCode" -> Num(200)
                  [] k = "headers" -> Obj([h \in {"connection"} |-> Str("close")])
                  [] OTHER -> Str("ok")]))}
    \cup {JSONstringify(CacheObj(o)) : o \in OriginResponses}

\* The key that has an entry at the start.
InitKey == "u1-t1"

None == [t |-> "none"]

VARIABLES
    store,    \* the key-value store: key -> stored string
    putq,     \* db.put calls issued and not yet applied, in order
    pc,       \* where each request stands
    req,      \* the request a slot received
    id,       \* the id getRequestId returned
    locked,   \* what db.get('lock') returned
    data,     \* what db.get(id) returned
    rr,       \* what the origin answered
    fwd,      \* the request sent to the origin
    client,   \* the complete responses a client received
    puts,     \* the db.put calls a request issued
    reads,    \* the keys a request read
    after,    \* the requests already answered when a request arrived
    lockWrites \* the operator's writes of the lock so far

vars == <<store, putq, pc, req, id, locked, data, rr, fwd, client, puts, reads,
          after, lockWrites>>

Init ==
    /\ \E v \in StoredValues :
          store = [x \in Keys |-> IF x = InitKey THEN v ELSE NoEntry]
    /\ putq = <<>>
    /\ pc = [r \in Reqs |-> "idle"]
    /\ req = [r \in Reqs |-> None]
    /\ id = [r \in Reqs |-> None]
    /\ locked = [r \in Reqs |-> None]
    /\ data = [r \in Reqs |-> None]
    /\ rr = [r \in Reqs |-> None]
    /\ fwd = [r \in Reqs |-> None]
    /\ client = [r \in Reqs |-> <<>>]
    /\ puts = [r \in Reqs |-> <<>>]
    /\ reads = [r \in Reqs |-> {}]
    /\ after = [r \in Reqs |-> {}]
    /\ lockWrites = 0

---------------------------------------------------------------------------
\* onAPIRequest's two ways out (server.js 83-109)

\* Lines 87-88 for the data makeAPIRequest returned.  writeHead throwing
\* leaves the response untouched and the catch renders 500.  When res.end
\* throws after writeHead has stored the header, renderErrorPage calls
\* writeHead a second time: depending on the node version that call throws
\* out of the handler (no response is ever completed) or replaces the stored
\* header (the 500 page is the response).
Answers(d) ==
    IF ~WriteHeadOk(d) THEN {<<renderErrorPage(500)>>}
    ELSE IF EndOk(d) THEN {<<ResponseOf(d)>>}
    ELSE {<<>>, <<renderErrorPage(500)>>}

\* The catch (server.js 91-104) for an error with this message.
Failure(message) == <<renderErrorPage(ErrCode(message))>>

\* locked === 'true' (server.js 119).
IsLockedLoose(v) == FALSE

IsLocked(v) == v = Text("true")

\* The branches of server.js 123-144 for the entry db.get(id) returned: the
\* error to throw, a hit to return, or a miss to fetch.
LookupNoPending(d) ==
    IF d = BLOCK THEN "gone"
    ELSE IF d # NoEntry
    THEN IF JSONparse(d) = Thrown THEN "gone" ELSE "hit"
    ELSE "miss"

LookupBlockedWaits(d) ==
    IF d = REQUEST \/ d = BLOCK THEN "unavailable"
    ELSE IF d # NoEntry
    THEN IF JSONparse(d) = Thrown THEN "gone" ELSE "hit"
    ELSE "miss"

LookupRefetchesReady(d) ==
    IF d = REQUEST THEN "unavailable"
    ELSE IF d = BLOCK THEN "gone"
    ELSE IF d # NoEntry
    THEN IF JSONparse(d) = Thrown THEN "gone" ELSE "miss"
    ELSE "miss"

LookupRetriesBlocked(d) ==
    IF d = REQUEST THEN "unavailable"
    ELSE IF d = BLOCK THEN "miss"
    ELSE IF d # NoEntry
    THEN IF JSONparse(d) = Thrown THEN "gone" ELSE "hit"
    ELSE "miss"

Lookup(d) ==
    IF d = REQUEST THEN "unavailable"
    ELSE IF d = BLOCK THEN "gone"
    ELSE IF d # NoEntry
    THEN IF JSONparse(d) = Thrown THEN "gone" ELSE "hit"
    ELSE "miss"

\* db.put(key, value): issued, applied later (the call is not awaited).
Put(r, k, v) ==
    /\ putq' = Append(putq, [k |-> k, v |-> v])
    /\ puts' = [puts EXCEPT ![r] = Append(@, [k |-> k, v |-> v])]

Finish(r, c) ==
    /\ client' = [client EXCEPT ![r] = c]
    /\ pc' = [pc EXCEPT ![r] = "done"]

---------------------------------------------------------------------------
\* Actions

\* onRequest (server.js 43-70): an API request waits for its body; any other
\* request is forwarded with the sanitized headers.
OnRequest(r) ==
    /\ pc[r] = "idle"
    /\ \A q \in Reqs : q < r => pc[q] # "idle"
    /\ \E rq \in Requests :
          /\ req' = [req EXCEPT ![r] = rq]
          /\ IF isGameAPI(rq)
             THEN /\ pc' = [pc EXCEPT ![r] = "body"]
                  /\ fwd' = fwd
             ELSE /\ pc' = [pc EXCEPT ![r] = "relay"]
                  /\ fwd' = [fwd EXCEPT ![r] = RelayOpts(rq)]
    /\ after' = [after EXCEPT ![r] = {q \in Reqs : pc[q] = "done"}]
    /\ UNCHANGED <<store, putq, id, locked, data, rr, client, puts, reads, lockWrites>>

\* The relay's origin answers (server.js 60-63).
RelayResponse(r) ==
    /\ pc[r] = "relay"
    /\ \E o \in OriginResponses :
          /\ rr' = [rr EXCEPT ![r] = [t |-> "response", res |-> o]]
          /\ Finish(r, <<[status |-> o.statusCode,
                          headers |-> removeProxyHeaders(o.headers),
                          body |-> o.body]>>)
    /\ UNCHANGED <<store, putq, req, id, locked, data, fwd, puts, reads, after, lockWrites>>

\* The relay's request fails: the client socket is destroyed (server.js 64-67).
RelayError(r) ==
    /\ pc[r] = "relay"
    /\ rr' = [rr EXCEPT ![r] = [t |-> "error"]]
    /\ Finish(r, <<>>)
    /\ UNCHANGED <<store, putq, req, id, locked, data, fwd, puts, reads, after, lockWrites>>

\* The 'end' listener up to the first await (server.js 78-85, 115-118).
OnEnd(r) ==
    /\ pc[r] = "body"
    /\ LET i == getRequestId(req[r])
       IN  IF i = Thrown
           THEN /\ Finish(r, Failure("forbidden"))
                /\ id' = id
           ELSE /\ id' = [id EXCEPT ![r] = i]
                /\ pc' = [pc EXCEPT ![r] = "lock"]
                /\ client' = client
    /\ UNCHANGED <<store, putq, req, locked, data, rr, fwd, puts, reads, after, lockWrites>>

\* db.get('lock') resolves (server.js 118-123).
GetLock(r) ==
    /\ pc[r] = "lock"
    /\ locked' = [locked EXCEPT ![r] = store[LOCKKEY]]
    /\ reads' = [reads EXCEPT ![r] = @ \cup {LOCKKEY}]
    /\ IF IsLocked(store[LOCKKEY])
       THEN Finish(r, Failure("unavailable"))
       ELSE /\ pc' = [pc EXCEPT ![r] = "data"]
            /\ client' = client
    /\ UNCHANGED <<store, putq, req, id, data, rr, fwd, puts, after, lockWrites>>

\* db.get rejects (the store fails): the catch renders 500.
GetFails(r) ==
    /\ pc[r] \in {"lock", "data"}
    /\ Finish(r, Failure("db error"))
    /\ UNCHANGED <<store, putq, req, id, locked, data, rr, fwd, puts, reads, after, lockWrites>>

\* db.get(id) resolves (server.js 123-156) and, for a hit or an error, the
\* response is written (server.js 87-104).
GetData(r) ==
    /\ pc[r] = "data"
    /\ LET d == store[id[r].s]
       IN  /\ data' = [data EXCEPT ![r] = d]
           /\ reads' = [reads EXCEPT ![r] = @ \cup {id[r].s}]
           /\ IF Lookup(d) = "miss"
              THEN /\ Put(r, id[r].s, REQUEST)
                   /\ fwd' = [fwd EXCEPT ![r] = FetchOpts(req[r])]
                   /\ pc' = [pc EXCEPT ![r] = "fetch"]
                   /\ client' = client
              ELSE /\ IF Lookup(d) = "hit"
                      THEN \E c \in Answers(JSONparse(d)) : Finish(r, c)
                      ELSE Finish(r, Failure(Lookup(d)))
                   /\ UNCHANGED <<putq, puts, fwd>>
    /\ UNCHANGED <<store, req, id, locked, rr, after, lockWrites>>

\* The origin answers (server.js 157-174), and the response is written
\* (server.js 87-88).
FetchDoneRejectsErrors(r) ==
    /\ pc[r] = "fetch"
    /\ \E o \in OriginResponses :
          /\ rr' = [rr EXCEPT ![r] = [t |-> "response", res |-> o]]
          /\ IF o.statusCode >= 400
             THEN /\ Put(r, id[r].s, BLOCK)
                  /\ Finish(r, Failure("gone"))
             ELSE /\ Put(r, id[r].s, JSONstringify(CacheObj(o)))
                  /\ \E c \in Answers(CacheObj(o)) : Finish(r, c)
    /\ UNCHANGED <<store, req, id, locked, data, fwd, reads, after, lockWrites>>

FetchDone(r) ==
    /\ pc[r] = "fetch"
    /\ \E o \in OriginResponses :
          /\ rr' = [rr EXCEPT ![r] = [t |-> "response", res |-> o]]
          /\ Put(r, id[r].s, JSONstringify(CacheObj(o)))
          /\ \E c \in Answers(CacheObj(o)) : Finish(r, c)
    /\ UNCHANGED <<store, req, id, locked, data, fwd, reads, after, lockWrites>>

\* The outbound request fails or times out (server.js 176-185, 205-215).
FetchFailsForgetsBlock(r) ==
    /\ pc[r] = "fetch"
    /\ rr' = [rr EXCEPT ![r] = [t |-> "error"]]
    /\ Finish(r, Failure("gone"))
    /\ UNCHANGED <<store, putq, req, id, locked, data, fwd, puts, reads, after, lockWrites>>

FetchFails(r) ==
    /\ pc[r] = "fetch"
    /\ rr' = [rr EXCEPT ![r] = [t |-> "error"]]
    /\ Put(r, id[r].s, BLOCK)
    /\ Finish(r, Failure("gone"))
    /\ UNCHANGED <<store, req, id, locked, data, fwd, reads, after, lockWrites>>

\* The store applies the oldest db.put in flight.
DbPut ==
    /\ putq # <<>>
    /\ store' = [store EXCEPT ![Head(putq).k] = Head(putq).v]
    /\ putq' = Tail(putq)
    /\ UNCHANGED <<pc, req, id, locked, data, rr, fwd, client, puts, reads, after, lockWrites>>

\* The operator sets or clears the lock.
Operator ==
    /\ lockWrites < MaxLockWrites
    /\ lockWrites' = lockWrites + 1
    /\ \E v \in {Text("true"), Text("false")} :
          /\ store[LOCKKEY] # v
          /\ store' = [store EXCEPT ![LOCKKEY] = v]
    /\ UNCHANGED <<putq, pc, req, id, locked, data, rr, fwd, client, puts, reads, after>>

Next ==
    \/ \E r \in Reqs : OnRequest(r)
    \/ \E r \in Reqs : RelayResponse(r)
    \/ \E r \in Reqs : RelayError(r)
    \/ \E r \in Reqs : OnEnd(r)
    \/ \E r \in Reqs : GetLock(r)
    \/ \E r \in Reqs : GetFails(r)
    \/ \E r \in Reqs : GetData(r)
    \/ \E r \in Reqs : FetchDone(r)
    \/ \E r \in Reqs : FetchFails(r)
    \/ DbPut
    \/ Operator

Spec == Init /\ [][Next]_vars

---------------------------------------------------------------------------
\* Vocabulary of the properties

Done(r) == pc[r] = "done"
IsApi(r) == req[r] # None /\ isGameAPI(req[r])
Answered(r, page) == Done(r) /\ client[r] = <<page>>

\* The request took no step of the coordinator that touches the store or
\* the origin.
NoStoreWrite(r) == puts[r] = <<>>
NoFetch(r) == fwd[r] = None

\* The account token or the session token is missing or empty.
LacksIdentity(rq) ==
    \/ "api_token" \notin DOMAIN rq.body
    \/ "cache-token" \notin DOMAIN rq.headers
    \/ rq.body["api_token"] = ""
    \/ rq.headers["cache-token"] = Str("")

\* The account token or the session token is missing.
MissesIdentity(rq) ==
    \/ "api_token" \notin DOMAIN rq.body
    \/ "cache-token" \notin DOMAIN rq.headers

\* A JSON document that encodes a payload: a status code, a header map and
\* a body (a string, or a Buffer as {"type":"Buffer","data":[bytes]}).
IsBufferJson(c) ==
    /\ c.t = "obj"
    /\ DOMAIN c.f = {"type", "data"}
    /\ c.f["type"] = Str("Buffer")
    /\ c.f["data"].t = "arr"
    /\ \A i \in DOMAIN c.f["data"].a :
          c.f["data"].a[i].t = "num" /\ c.f["data"].a[i].n \in 0..255

IsPayload(v) ==
    /\ v.t = "obj"
    /\ DOMAIN v.f = {"statusCode", "headers", "content"}
    /\ v.f["statusCode"].t = "num"
    /\ v.f["statusCode"].n \in 100..999
    /\ v.f["headers"].t = "obj"
    /\ \A k \in DOMAIN v.f["headers"].f : v.f["headers"].f[k].t = "str"
    /\ (v.f["content"].t = "str" \/ IsBufferJson(v.f["content"]))

IsReady(d) == d.t = "json" /\ IsPayload(d.v)

\* The response a payload stands for.
StoredResponse(v) ==
    [status |-> v.f["statusCode"].n,
     headers |-> v.f["headers"].f,
     body |-> IF v.f["content"].t = "str" THEN v.f["content"]
              ELSE Buf([i \in DOMAIN v.f["content"].f["data"].a |->
                          v.f["content"].f["data"].a[i].n])]

\* The payload that stands for an origin response: its status, its headers
\* without the proxy headers, its body.
PayloadOf(o) ==
    Json(Obj([k \in {"statusCode", "headers", "content"} |->
        CASE k = "statusCode" -> Num(o.statusCode)
          [] k = "headers" -> Obj([h \in DOMAIN o.headers \ ProxyHeaders |-> o.headers[h]])
          [] OTHER -> Obj([x \in {"type", "data"} |->
                        IF x = "type" THEN Str("Buffer")
                        ELSE Arr([i \in DOMAIN o.body.d |-> Num(o.body.d[i])])])]))

\* The request went to the origin for its key (the ABSENT branch).
Fetched(r) == IsApi(r) /\ fwd[r] # None

---------------------------------------------------------------------------
\* C1: an API request whose account token or session token is missing or
\* empty is answered 403 and reads no key, writes no key and fetches nothing.
C1_LackingIdentityForbidden ==
    \A r \in Reqs :
        IsApi(r) /\ LacksIdentity(req[r]) =>
            /\ reads[r] = {}
            /\ NoStoreWrite(r)
            /\ NoFetch(r)
            /\ pc[r] \in {"body", "done"}
            /\ Done(r) => client[r] = <<renderErrorPage(403)>>

\* C2: a request that finds the lock set is answered 503 whatever its key's
\* entry is, and reads no entry of a cache key, writes nothing and fetches
\* nothing.
C2_LockedUnavailable ==
    \A r \in Reqs :
        locked[r] = Text("true") =>
            /\ Answered(r, renderErrorPage(503))
            /\ reads[r] = {LOCKKEY}
            /\ data[r] = None
            /\ NoStoreWrite(r)
            /\ NoFetch(r)

C2_Witness ==
    \E r \in Reqs :
        /\ locked[r] = Text("true")
        /\ Answered(r, renderErrorPage(503))
        /\ IsReady(store[id[r].s])

\* C3: a request that reads the PENDING sentinel for its key is answered 503
\* at once: it starts no fetch, writes nothing and reads nothing again.
C3_PendingUnavailable ==
    \A r \in Reqs :
        data[r] = REQUEST =>
            /\ Answered(r, renderErrorPage(503))
            /\ NoFetch(r)
            /\ NoStoreWrite(r)
            /\ locked[r] # Text("true")

C3_Witness ==
    \E r, q \in Reqs :
        /\ data[r] = REQUEST
        /\ Answered(r, renderErrorPage(503))
        /\ pc[q] = "fetch"
        /\ id[q] = id[r]

\* C4: a request that reads the BLOCKED sentinel for its key is answered 410
\* and starts no fetch.
C4_BlockedGone ==
    \A r \in Reqs :
        data[r] = BLOCK =>
            /\ Answered(r, renderErrorPage(410))
            /\ NoFetch(r)
            /\ NoStoreWrite(r)
            /\ locked[r] # Text("true")

C4_Witness ==
    \E r, q \in Reqs :
        /\ data[r] = BLOCK
        /\ Answered(r, renderErrorPage(410))
        /\ rr[q] = [t |-> "error"]
        /\ id[q] = id[r]

\* C5: a request that reads a READY entry holding an encoded payload is
\* answered with exactly the stored status, headers and body, and starts no
\* fetch and writes nothing.
C5_ReadyReproduced ==
    \A r \in Reqs :
        IsReady(data[r]) =>
            /\ Answered(r, StoredResponse(data[r].v))
            /\ NoFetch(r)
            /\ NoStoreWrite(r)

\* C6: a request that reads a string that is neither a sentinel nor an
\* encoded payload is answered 410, as for BLOCKED, and starts no fetch.
C6_UndecodableGone ==
    \A r \in Reqs :
        data[r] \notin {None, NoEntry, REQUEST, BLOCK} /\ ~IsReady(data[r]) =>
            /\ Answered(r, renderErrorPage(410))
            /\ NoFetch(r)

\* C7: a request that found its key absent writes READY with the origin's
\* status, sanitized headers and body and answers with that status and body
\* when the origin responds, whatever the status; it writes BLOCKED and
\* answers 410 when, and only when, the fetch fails.
C7_OutcomeFollowsFetch ==
    \A r \in Reqs :
        Fetched(r) /\ Done(r) =>
            /\ rr[r].t \in {"response", "error"}
            /\ Len(puts[r]) = 2
            /\ puts[r][1] = [k |-> id[r].s, v |-> REQUEST]
            /\ puts[r][2].k = id[r].s
            /\ rr[r].t = "response" =>
                  /\ puts[r][2].v = PayloadOf(rr[r].res)
                  /\ Len(client[r]) = 1
                  /\ client[r][1].status = rr[r].res.statusCode
                  /\ client[r][1].body = rr[r].res.body
            /\ rr[r].t = "error" =>
                  /\ puts[r][2].v = BLOCK
                  /\ client[r] = <<renderErrorPage(410)>>
            /\ puts[r][2].v = BLOCK <=> rr[r].t = "error"

C7_Witness ==
    \E r, q \in Reqs :
        /\ Fetched(r) /\ Done(r)
        /\ rr[r].t = "response" /\ rr[r].res.statusCode = 500
        /\ client[r][1].status = 500
        /\ Fetched(q) /\ Done(q)
        /\ rr[q] = [t |-> "error"]

\* C8: once a request that fetched is answered, a request for the same key
\* that arrives later and that reads the entry the first one wrote is
\* answered with the same status and body, or 410 after a failed fetch,
\* without a fetch of its own.
C8_LaterRequestServedFromStore ==
    \A r, q \in Reqs :
        /\ Fetched(r) /\ Done(r)
        /\ r \in after[q]
        /\ id[q] = id[r]
        /\ data[q] = puts[r][2].v
        => /\ NoFetch(q)
           /\ Done(q)
           /\ Len(client[q]) = 1
           /\ client[q][1].status = client[r][1].status
           /\ client[q][1].body = client[r][1].body

\* C9: a finished API request has exactly one complete response, whose
\* status is the cached or origin status or one of 403, 410, 500, 503.
C9_ExactlyOneResponse ==
    \A r \in Reqs :
        IsApi(r) /\ Done(r) =>
            /\ Len(client[r]) = 1
            /\ \/ client[r][1].status \in {403, 410, 500, 503}
               \/ rr[r].t = "response" /\ client[r][1].status = rr[r].res.statusCode
               \/ IsReady(data[r]) /\ client[r][1].status = data[r].v.f["statusCode"].n

C11_RoundTrip ==
    \A r \in Reqs :
        Fetched(r) /\ Done(r) /\ rr[r].t = "response" =>
            LET d == JSONparse(puts[r][2].v)
            IN  /\ d # Thrown
                /\ WriteHeadOk(d)
                /\ EndOk(d)
                /\ <<ResponseOf(d)>> = client[r]

\* C12: when a request that found its key absent starts its fetch, the store
\* holds PENDING for the key.
C12_PendingBeforeFetch ==
    [][\A r \in Reqs :
          pc[r] = "data" /\ pc'[r] = "fetch" => store'[id[r].s] = REQUEST]_vars

\* C13: an entry leaves PENDING only for READY or BLOCKED and never returns
\* to PENDING; a request that found its key absent writes PENDING once and
\* then one outcome.
C13_PendingLeftOnce ==
    [][/\ \A k \in CacheKeys :
             /\ store[k] = REQUEST /\ store'[k] # REQUEST =>
                   store'[k] = BLOCK \/ store'[k].t = "json"
             /\ store'[k] = REQUEST => store[k] \in {NoEntry, REQUEST}
       /\ \A r \in Reqs :
             /\ Len(puts'[r]) <= 2
             /\ Len(puts'[r]) >= 1 => puts'[r][1].v = REQUEST
             /\ Len(puts'[r]) = 2 => puts'[r][2].v # REQUEST]_vars

\* The request issued a write of this value to this key.
Wrote(r, k, v) == \E i \in DOMAIN puts[r] : puts[r][i] = [k |-> k, v |-> v]

\* Both requests fetched for the same key, every write has been applied, and
\* the entry is the outcome q wrote, which differs from the outcome r wrote.
Overwrote(q, r) ==
    /\ q # r
    /\ Fetched(q) /\ Fetched(r) /\ Done(q) /\ Done(r)
    /\ id[q] = id[r]
    /\ putq = <<>>
    /\ puts[q][2].v # puts[r][2].v
    /\ store[id[q].s] = puts[q][2].v

\* C14 as stated: no step of the proxy changes a READY entry.
C14_ReadyStays ==
    [][\A k \in CacheKeys : IsReady(store[k]) => store'[k] = store[k]]_vars

\* C14: a READY entry is changed only by a write of a request for that key
\* that observed ABSENT before; a request that observes READY writes nothing.
C14_ReadyChangedOnlyByFetcher ==
    [][/\ \A k \in CacheKeys :
             IsReady(store[k]) /\ store'[k] # store[k] =>
                \E r \in Reqs : /\ Fetched(r)
                                /\ data[r] = NoEntry
                                /\ Wrote(r, k, store'[k])
       /\ \A r \in Reqs :
             pc[r] = "data" /\ IsReady(store[id[r].s]) => puts'[r] = <<>>]_vars

\* A READY entry written by one request was overwritten by the outcome of
\* another request for the same key.
C14_Witness ==
    \E q, r \in Reqs :
        /\ Overwrote(q, r)
        /\ rr[r].t = "response"
        /\ IsReady(puts[r][2].v)

\* C15 as stated: no step of the proxy changes a BLOCKED entry.
C15_BlockedStays ==
    [][\A k \in CacheKeys : store[k] = BLOCK => store'[k] = BLOCK]_vars

\* C15: a BLOCKED entry is changed only by a write of a request for that key
\* that observed ABSENT before; a request that observes BLOCKED writes
\* nothing and fetches nothing.
C15_BlockedChangedOnlyByFetcher ==
    [][/\ \A k \in CacheKeys :
             store[k] = BLOCK /\ store'[k] # BLOCK =>
                \E r \in Reqs : /\ Fetched(r)
                                /\ data[r] = NoEntry
                                /\ Wrote(r, k, store'[k])
       /\ \A r \in Reqs :
             pc[r] = "data" /\ store[id[r].s] = BLOCK =>
                puts'[r] = <<>> /\ fwd'[r] = None]_vars

\* A BLOCKED entry written after a failed fetch was overwritten by the
\* outcome of another request for the same key.
C15_Witness ==
    \E q, r \in Reqs :
        /\ Overwrote(q, r)
        /\ rr[r].t = "error"
        /\ puts[r][2].v = BLOCK

\* C16: if a request for a key arrives after an earlier request for the same
\* key has fetched and been answered, it does not fetch again: at most one
\* fetch per key among requests that do not overlap.
C16_OneFetchWithoutOverlap ==
    \A q, r \in Reqs :
        r \in after[q] /\ Fetched(r) /\ id[q] = id[r] => ~Fetched(q)

\* C17 as stated: every request that returned from the flag-set branch or,
\* having read its key, from any branch but the decode of a READY payload,
\* has written to the store when it is done.
C17_EveryOtherBranchWrites ==
    \A r \in Reqs :
        /\ Done(r)
        /\ IsApi(r)
        /\ \/ IsLocked(locked[r])
           \/ id[r] # None /\ id[r].s \in reads[r]
                           /\ Lookup(data[r]) # "hit"
        => puts[r] # <<>>

\* C17: only the ABSENT branch writes to the store, PENDING and then one
\* outcome; the flag-set, PENDING, BLOCKED and READY branches write nothing.
C17_OnlyAbsentBranchWrites ==
    \A r \in Reqs :
        /\ puts[r] # <<>> <=> Fetched(r)
        /\ Fetched(r) => /\ data[r] = NoEntry
                         /\ puts[r][1] = [k |-> id[r].s, v |-> REQUEST]
        /\ Fetched(r) /\ Done(r) =>
              /\ Len(puts[r]) = 2
              /\ puts[r][2].k = id[r].s
              /\ puts[r][2].v # REQUEST
              /\ (puts[r][2].v = BLOCK <=> rr[r].t = "error")

\* Requests have returned from the flag-set, PENDING, BLOCKED and
\* decode-failure branches, and one from the ABSENT branch after a failed
\* fetch.
C17_Witness ==
    /\ \E r \in Reqs : Done(r) /\ Fetched(r) /\ rr[r].t = "error"
    /\ \E r \in Reqs :
          /\ Done(r) /\ IsApi(r) /\ ~Fetched(r)
          /\ id[r] # None
          /\ id[r].s \in reads[r]
          /\ Lookup(data[r]) \in {"unavailable", "gone"}

\* No request is between its arrival and its response.
NoneInFlight == \A r \in Reqs : pc[r] \in {"idle", "done"}

\* C18: once no request is in flight, no key for which a request fetched is
\* PENDING: the outcome write of every started fetch has happened.
C18_NoPendingAtRest ==
    NoneInFlight =>
        \A r \in Reqs : Fetched(r) => store[id[r].s] # REQUEST

---------------------------------------------------------------------------
\* getRequestId over a range of tokens

\* Token values a client can send, among them empty ones, ones that hold the
\* separator and the name of the lock.
Tokens == {"", "a", "b", "c", "a-b", "b-c", "lock"}

\* An API request with these tokens, each given as <<value>>, or as <<>> for
\* a token that is not sent.
TokenRequest(user, token) ==
    ApiRequest(IF token = <<>> THEN BaseHeaders
               ELSE WithHeader(BaseHeaders, "cache-token", Str(token[1])),
               IF user = <<>> THEN EmptyForm
               ELSE [k \in {"api_token"} |-> user[1]])

KeyRequests ==
    {TokenRequest(user, token) : user, token \in {<<>>} \cup {<<t>> : t \in Tokens}}

\* Every id getRequestId returns for them.
KeyIds == {getRequestId(rq) : rq \in KeyRequests} \ {Thrown}

\* Two API requests have been received with their bodies; the 'end'
\* listener derives the id of each.
KeyInit ==
    /\ store = [x \in Keys |-> NoEntry]
    /\ putq = <<>>
    /\ pc = [r \in Reqs |-> "body"]
    /\ req \in [Reqs -> KeyRequests]
    /\ id = [r \in Reqs |-> None]
    /\ locked = [r \in Reqs |-> None]
    /\ data = [r \in Reqs |-> None]
    /\ rr = [r \in Reqs |-> None]
    /\ fwd = [r \in Reqs |-> None]
    /\ client = [r \in Reqs |-> <<>>]
    /\ puts = [r \in Reqs |-> <<>>]
    /\ reads = [r \in Reqs |-> {}]
    /\ after = [r \in Reqs |-> {}]
    /\ lockWrites = 0

KeyNext == \E r \in Reqs : OnEnd(r)

KeySpec == KeyInit /\ [][KeyNext]_vars

\* The tokens of a request that was given an id.
UserOf(rq) == rq.body["api_token"]
TokenOf(rq) == rq.headers["cache-token"].s

\* C19: two requests that were given the same id have the same account token
\* and the same session token, and both tokens of a request that was given
\* an id are non-empty.
C19_KeyIdentifiesPair ==
    \A q, r \in Reqs :
        id[q] # None /\ id[r] # None =>
            /\ id[q] = id[r] =>
                  UserOf(req[q]) = UserOf(req[r]) /\ TokenOf(req[q]) = TokenOf(req[r])
            /\ UserOf(req[r]) # ""
            /\ TokenOf(req[r]) # ""

\* C20: an API request reads only the lock and the entry of its own key and
\* writes only the entry of its own key, which is never the lock; an entry
\* changes only by a write of a request for that key, or the lock by the
\* operator; and no pair of tokens yields the key of the lock.
C20_WritesOnlyOwnKey ==
    [][/\ \A r \in Reqs :
             IF id'[r] = None
             THEN puts'[r] = <<>> /\ reads'[r] = {}
             ELSE /\ id'[r].s # LOCKKEY
                  /\ reads'[r] \subseteq {LOCKKEY, id'[r].s}
                  /\ \A i \in DOMAIN puts'[r] : puts'[r][i].k = id'[r].s
       /\ \A k \in Keys :
             store'[k] # store[k] =>
                IF k = LOCKKEY
                THEN lockWrites' = lockWrites + 1
                ELSE \E r \in Reqs : id[r] = Str(k) /\ Wrote(r, k, store'[k])
       /\ Str(LOCKKEY) \notin KeyIds]_vars

\* Two requests for different keys have fetched, and each key holds what the
\* request for it wrote.
C20_Witness ==
    \E q, r \in Reqs :
        /\ Fetched(q) /\ Fetched(r) /\ Done(q) /\ Done(r)
        /\ id[q] # id[r]
        /\ putq = <<>>
        /\ store[id[q].s] = puts[q][2].v
        /\ store[id[r].s] = puts[r][2].v
        /\ puts[q][2].v # puts[r][2].v

====
